---------------------------- MODULE Spec2Model ----------------------------
(***************************************************************************)
(* A model of the Lenia / Game-of-Life grid engine of src/src/main.rs:     *)
(* the struct Lenia (cells, active_cells, mode, delta_t, kernel_radius),   *)
(* its operations (new, resize, compute_next_frame) and the event handlers *)
(* of main that edit the grid (draw, reseed, clear, pause keys).           *)
(*                                                                         *)
(* Numbers.  An f32 cell value v is the integer v * One (One == 1000), so  *)
(* 0.0 is 0 and 1.0 is One; the IEEE value NaN is the separate value NaN.  *)
(* Coordinates are the source's 0-based (raw, col); a Vec is a sequence,   *)
(* so Vec index i is sequence index i + 1.                                 *)
(***************************************************************************)
EXTENDS Integers, Sequences, FiniteSets, TLC

VARIABLES
    cells,          \* Lenia.cells: Vec<Vec<f32>>, a sequence of rows
    active_cells,   \* Lenia.active_cells: set of <<raw, col>>
    mode,           \* Lenia.mode: "Lenia" or "GameOfLife"
    delta_t,        \* Lenia.delta_t, in units of 1/One
    kernel_radius,  \* Lenia.kernel_radius
    app_state,      \* AppState: is_game_paused, is_drawing, is_erasing
    panicked,       \* TRUE once an operation has panicked (the process is gone)
    budget,         \* history: the number of grid operations the main loop
                    \* may still perform
    last            \* history: the last operation, its arguments, the grid
                    \* and active set it started from, and the place of the
                    \* pattern the grid was constructed with

vars == <<cells, active_cells, mode, delta_t, kernel_radius, app_state, panicked, budget, last>>

-----------------------------------------------------------------------------
(* Bounds of the model *)

\* Largest width and height of a grid stepped in Discrete mode alone
MaxDim == 4

\* Largest number of non-zero cells of such a grid at construction
MaxSeeded == 3

\* Largest width and height of a grid under the main loop
LoopDim == 3

\* Largest number of cells one seeding of the main loop draws a non-zero value for
LoopSeeded == 1

\* Largest kernel_radius given to Lenia::new
MaxRadius == 2

\* Number of grid operations the main loop performs
MaxOps == 2

\* Number of grid operations of the main loop when it only draws and steps
DrawOps == 3

\* Number of frames computed for the glider
GliderSteps == 4

-----------------------------------------------------------------------------
(* Values *)

\* The f32 value 1.0 in the model's fixed-point unit
One == 1000

\* The IEEE NaN, outside the fixed-point range
NaN == -1

IsNaN(x) == x = NaN

\* a + b on floats: NaN if either operand is
AddF(a, b) == IF IsNaN(a) \/ IsNaN(b) THEN NaN ELSE a + b

\* `x as usize` for a float x >= 0 or NaN: truncation, NaN becomes 0
AsUsize(x) == IF IsNaN(x) THEN 0 ELSE x \div One

-----------------------------------------------------------------------------
(* The grid *)

Height(g) == Len(g)

\* the source reads the width as self.cells[0].len()
Width(g) == Len(g[1])

Cell(g, raw, col) == g[raw + 1][col + 1]

Coords(g) == {<<raw, col>> : raw \in 0..(Height(g) - 1), col \in 0..(Width(g) - 1)}

\* vec![vec![0_f32; w]; h]
ZeroGrid(w, h) == [r \in 1..h |-> [c \in 1..w |-> 0]]

\* VecResize that drops the old contents
VecResizeAllFill(v, n, fill) == [i \in 1..n |-> fill]

\* Vec::resize(n, fill): truncate, or extend with copies of fill
VecResize(v, n, fill) == [i \in 1..n |-> IF i <= Len(v) THEN v[i] ELSE fill]

-----------------------------------------------------------------------------
(* Seeding: Lenia::new and the 'r' key *)

GameOfLife == "GameOfLife"
LeniaMode == "Lenia"

\* fastrand::f32() draws from [0, 1): the samples the model draws
LeniaSamples == {0, 310, 999}

\* what one cell of a seeded region can receive
RandomValues(m) == IF m = GameOfLife THEN {0, One} ELSE LeniaSamples

\* RegionCells without the two skip() calls
RegionCellsNoSkip(g, region) ==
    {rc \in Coords(g) : rc[1] < region[2][2] + 1 /\ rc[2] < region[1][2] + 1}

\* the cells visited by
\*   cells.iter_mut().take(area_h_max + 1).skip(area_h_min), and per row
\*   raw.iter_mut().take(area_w_max + 1).skip(area_w_min)
\* region is <<<<area_w_min, area_w_max>>, <<area_h_min, area_h_max>>>>
RegionCells(g, region) ==
    {rc \in Coords(g) : /\ region[2][1] <= rc[1] /\ rc[1] < region[2][2] + 1
                        /\ region[1][1] <= rc[2] /\ rc[2] < region[1][2] + 1}

\* the grid once every cell of the region has received its draw
Seeded(g, region, draw) ==
    [r \in 1..Height(g) |-> [c \in 1..Width(g) |->
        IF <<r - 1, c - 1>> \in DOMAIN draw THEN draw[<<r - 1, c - 1>>]
        ELSE g[r][c]]]

RECURSIVE SubsetsUpTo(_, _)
\* the subsets of S of at most k elements
SubsetsUpTo(S, k) ==
    IF k = 0 THEN {{}}
    ELSE LET smaller == SubsetsUpTo(S, k - 1)
         IN  smaller \cup {p \cup {x} : p \in smaller, x \in S}

\* the draws of one seeding: a value of RandomValues(m) for every cell of S,
\* non-zero for at most k of them
Draws(S, m, k) ==
    UNION {{[c \in S |-> IF c \in p THEN val[c] ELSE 0] :
              val \in [p -> RandomValues(m) \ {0}]} :
           p \in SubsetsUpTo(S, k)}

SeedOutcomes(g, region, m, k) ==
    IF RegionCells(g, region) = {} THEN {g}
    ELSE {Seeded(g, region, draw) : draw \in Draws(RegionCells(g, region), m, k)}

\* Lenia::new clamps the region's maxima to the grid
ClampRegion(w, h, region) ==
    << <<region[1][1], IF region[1][2] >= w THEN w - 1 ELSE region[1][2]>>,
       <<region[2][1], IF region[2][2] >= h THEN h - 1 ELSE region[2][2]>> >>

NewCells(w, h, region, m, k) ==
    SeedOutcomes(ZeroGrid(w, h), ClampRegion(w, h, region), m, k)

-----------------------------------------------------------------------------
(* Discrete stepping: compute_next_gol_frame *)

\* NeighbourCoords without the wrap of the first row and column
NeighbourCoordsNoWrap(raw, col, w, h) ==
    LET top_raw    == IF raw = 0 THEN 0 ELSE raw - 1
        bottom_raw == IF raw = h - 1 THEN 0 ELSE raw + 1
        left_col   == IF col = 0 THEN 0 ELSE col - 1
        right_col  == IF col = w - 1 THEN 0 ELSE col + 1
    IN  << <<top_raw, left_col>>, <<top_raw, col>>, <<top_raw, right_col>>,
           <<raw, left_col>>, <<raw, right_col>>,
           <<bottom_raw, left_col>>, <<bottom_raw, col>>, <<bottom_raw, right_col>> >>

\* the 8 places update_cell reads, in the order of its `neighbours` array
NeighbourCoords(raw, col, w, h) ==
    LET top_raw    == IF raw = 0 THEN h - 1 ELSE raw - 1
        bottom_raw == IF raw = h - 1 THEN 0 ELSE raw + 1
        left_col   == IF col = 0 THEN w - 1 ELSE col - 1
        right_col  == IF col = w - 1 THEN 0 ELSE col + 1
    IN  << <<top_raw, left_col>>, <<top_raw, col>>, <<top_raw, right_col>>,
           <<raw, left_col>>, <<raw, right_col>>,
           <<bottom_raw, left_col>>, <<bottom_raw, col>>, <<bottom_raw, right_col>> >>

RECURSIVE SumF32(_)
\* neighbours.into_iter().sum::<f32>()
SumF32(s) == IF s = <<>> THEN 0 ELSE AddF(Head(s), SumF32(Tail(s)))

\* alive_cells_count: the neighbour sum of the previous frame g, cast to usize
AliveCellsCount(g, raw, col) ==
    LET n == NeighbourCoords(raw, col, Width(g), Height(g))
    IN  AsUsize(SumF32([i \in 1..8 |-> Cell(g, n[i][1], n[i][2])]))

\* UpdateCell where a live cell survives with exactly two live neighbours only
UpdateCellSurviveTwo(g, raw, col) ==
    LET is_alive == Cell(g, raw, col) = One
        alive_cells_count == AliveCellsCount(g, raw, col)
    IN  IF \/ is_alive /\ alive_cells_count = 2
           \/ ~is_alive /\ alive_cells_count = 3
        THEN One ELSE 0

\* UpdateCell without the birth rule
UpdateCellNoBirth(g, raw, col) ==
    LET is_alive == Cell(g, raw, col) = One
        alive_cells_count == AliveCellsCount(g, raw, col)
    IN  IF is_alive /\ alive_cells_count \in 2..3 THEN One ELSE 0

\* the value update_cell writes to next_frame_cells[raw][col]
UpdateCell(g, raw, col) ==
    LET is_alive == Cell(g, raw, col) = One
        alive_cells_count == AliveCellsCount(g, raw, col)
    IN  IF \/ is_alive /\ alive_cells_count \in 2..3
           \/ ~is_alive /\ alive_cells_count = 3
        THEN One ELSE 0

\* the cells update_cell is called on: all of them when active_cells is empty
EvaluatedCells(g, active) == IF active = {} THEN Coords(g) ELSE active

\* next_frame_cells: a clone of the frame with the evaluated cells rewritten
NextGolCells(g, active) ==
    [r \in 1..Height(g) |-> [c \in 1..Width(g) |->
        IF <<r - 1, c - 1>> \in EvaluatedCells(g, active)
        THEN UpdateCell(g, r - 1, c - 1) ELSE g[r][c]]]

\* AffectedCells without the neighbours
AffectedCellsSelfOnly(raw, col, w, h) == {<<raw, col>>}

\* what a changed cell inserts in next_frame_active_cells
AffectedCells(raw, col, w, h) ==
    {<<raw, col>>} \cup {NeighbourCoords(raw, col, w, h)[i] : i \in 1..8}

\* NextActiveCells that starts from the previous set
NextActiveCellsCarried(g, active) ==
    active \cup
    UNION {AffectedCells(rc[1], rc[2], Width(g), Height(g)) :
             rc \in {x \in EvaluatedCells(g, active) :
                        Cell(g, x[1], x[2]) # UpdateCell(g, x[1], x[2])}}

\* next_frame_active_cells
NextActiveCells(g, active) ==
    UNION {AffectedCells(rc[1], rc[2], Width(g), Height(g)) :
             rc \in {x \in EvaluatedCells(g, active) :
                        Cell(g, x[1], x[2]) # UpdateCell(g, x[1], x[2])}}

\* update_cell indexes self.cells[raw][..]: a tracked cell outside the grid panics
GolStepPanics(g, active) ==
    \E rc \in active : rc[1] >= Height(g) \/ rc[2] >= Width(g)

-----------------------------------------------------------------------------
(* Continuous stepping: compute_next_lenia_frame *)

\* The f64 value 1.0 in the unit of the kernel weights and of the growth
ExpScale == 10000

\* exp(-n) for n = 0..9, in units of 1/ExpScale
ExpIntTable == <<10000, 3679, 1353, 498, 183, 67, 25, 9, 3, 1>>

RECURSIVE ExpSeries(_, _, _)
\* the Taylor series of exp(-f / ExpScale) from its k-th term on, 0 <= f < ExpScale
ExpSeries(f, k, term) ==
    IF term = 0 \/ k > 12 THEN 0
    ELSE term - ExpSeries(f, k + 1, (term * f) \div (k * ExpScale))

\* f64::exp(-(xu / ExpScale)) for xu >= 0, in units of 1/ExpScale
ExpNeg(xu) ==
    LET n == xu \div ExpScale
        f == xu % ExpScale
    IN  IF n > 9 THEN 0
        ELSE (ExpIntTable[n + 1] * ExpSeries(f, 1, ExpScale)) \div ExpScale

\* exp(-(num / den)) for num >= 0, den > 0
ExpNegRatio(num, den) ==
    IF num >= 10 * den THEN 0 ELSE ExpNeg((num * ExpScale) \div den)

\* kernel_core_function: r = round(d / R * 10) / 10 is r10 / 10, and
\* exp(ALPHA * (1 - 1 / (ALPHA * r * (1 - r)))) = exp(-(100 - 4q) / q) with
\* q = r10 * (10 - r10); for r = 0 and r = 1 the quotient 1 / 0 is +inf and
\* exp(-inf) is 0
KernelCoreFunction(distance_from_cell, radius) ==
    LET r10 == (20 * distance_from_cell + radius) \div (2 * radius)
        q   == r10 * (10 - r10)
    IN  IF q = 0 THEN 0 ELSE ExpNegRatio(100 - 4 * q, q)

\* MU and SIGMA of growth_function, in units of 1/One
MU == 310
SIGMA == 49

\* growth_function: 2 * exp(-(l * l) / K) - 1 with K = 2 * SIGMA * SIGMA,
\* in units of 1/ExpScale; NaN for a NaN potential
GrowthFunction(potential_distribution) ==
    IF IsNaN(potential_distribution) THEN NaN
    ELSE LET d == potential_distribution - MU
             l == IF d < 0 THEN 0 - d ELSE d
         IN  2 * ExpNegRatio(l * l, 2 * SIGMA * SIGMA) - ExpScale

Abs(x) == IF x < 0 THEN 0 - x ELSE x

\* the (neighbour_raw, neighbour_col) pairs that pass both `continue` tests
KernelNeighbours(raw, col, radius) ==
    {n \in ((raw - radius)..(raw + radius)) \X ((col - radius)..(col + radius)) :
        /\ ~(n[1] = raw /\ n[2] = col)
        /\ Abs(raw - n[1]) + Abs(col - n[2]) <= radius}

\* WrapLenia on the whole torus
WrapLeniaFullTorus(n, w, h) == <<n[1] % h, n[2] % w>>

\* (ypos, xpos): rem_euclid against h - 1 and w - 1
WrapLenia(n, w, h) == <<n[1] % (h - 1), n[2] % (w - 1)>>

\* rem_euclid panics on a zero divisor as soon as one neighbour is wrapped
LeniaStepPanics(g, radius) ==
    /\ Width(g) - 1 = 0 \/ Height(g) - 1 = 0
    /\ \E rc \in Coords(g) : KernelNeighbours(rc[1], rc[2], radius) # {}

RECURSIVE SumOver(_, _)
\* the sum of the function f over the finite set S
SumOver(S, f) ==
    IF S = {} THEN 0
    ELSE LET x == CHOOSE y \in S : TRUE IN f[x] + SumOver(S \ {x}, f)

\* potential_distribution after the division by max_kernel, in units of 1/One
PotentialDistribution(g, raw, col, radius) ==
    LET ns == KernelNeighbours(raw, col, radius)
        kernel_val == [n \in ns |->
            KernelCoreFunction(Abs(raw - n[1]) + Abs(col - n[2]), radius)]
        read == [n \in ns |->
            LET p == WrapLenia(n, Width(g), Height(g)) IN Cell(g, p[1], p[2])]
        max_kernel == SumOver(ns, kernel_val)
    IN  IF \E n \in ns : IsNaN(read[n]) THEN NaN
        ELSE IF max_kernel = 0 THEN NaN
        ELSE SumOver(ns, [n \in ns |-> read[n] * kernel_val[n]]) \div max_kernel

\* f64::clamp(0.0, 1.0) of a number
Clamp01(x) == IF x < 0 THEN 0 ELSE IF x > One THEN One ELSE x

\* next_frame_value: a NaN growth or cell makes the sum a NaN, and clamp
\* returns a NaN unchanged
LeniaNextValue(g, raw, col, dt, radius) ==
    LET growth_mapping == GrowthFunction(PotentialDistribution(g, raw, col, radius))
    IN  IF IsNaN(growth_mapping) \/ IsNaN(Cell(g, raw, col)) THEN NaN
        ELSE Clamp01(Cell(g, raw, col) + (dt * growth_mapping) \div ExpScale)

NextLeniaCells(g, dt, radius) ==
    [r \in 1..Height(g) |-> [c \in 1..Width(g) |->
        LeniaNextValue(g, r - 1, c - 1, dt, radius)]]

-----------------------------------------------------------------------------
(* Lenia::resize *)

\* ResizeCells whose new rows have the old width
ResizeCellsOldWidthRows(g, new_cell_width_count, new_cell_height_count) ==
    LET g1 == IF new_cell_width_count # Width(g)
              THEN [r \in 1..Height(g) |-> VecResize(g[r], new_cell_width_count, 0)]
              ELSE g
    IN  IF new_cell_height_count # Height(g1)
        THEN VecResize(g1, new_cell_height_count, [c \in 1..Width(g) |-> 0])
        ELSE g1

\* resize every row to the new width when it differs from cells[0].len(),
\* then the row count when it differs from cells.len()
ResizeCells(g, new_cell_width_count, new_cell_height_count) ==
    LET g1 == IF new_cell_width_count # Width(g)
              THEN [r \in 1..Height(g) |-> VecResize(g[r], new_cell_width_count, 0)]
              ELSE g
    IN  IF new_cell_height_count # Height(g1)
        THEN VecResize(g1, new_cell_height_count,
                       [c \in 1..new_cell_width_count |-> 0])
        ELSE g1

-----------------------------------------------------------------------------
(* generate_spawn_area *)

\* one axis: min = usize(0..count), max = min + usize(1..(count - min))
SpawnRange(count) ==
    UNION {{<<lo, lo + k>> : k \in 1..(count - lo - 1)} : lo \in 0..(count - 1)}

SpawnAreas(wcell_count, hcell_count) == SpawnRange(wcell_count) \X SpawnRange(hcell_count)

\* usize(1..(count - min)) is drawn from an empty range when min = count - 1,
\* which usize(0..count) can return: fastrand panics
SpawnAreaCanPanic(wcell_count, hcell_count) ==
    \/ \E lo \in 0..(wcell_count - 1) : wcell_count - lo <= 1
    \/ \E lo \in 0..(hcell_count - 1) : hcell_count - lo <= 1

-----------------------------------------------------------------------------
(* The state after construction *)

\* delta_t.unwrap_or(1.0) and kernel_radius.unwrap_or(13)
DefaultDeltaT == One
DefaultKernelRadius == 13

DefaultAppState == [is_game_paused |-> TRUE, is_drawing |-> FALSE, is_erasing |-> FALSE]

Record(op, arg) ==
    [op |-> op, cells |-> cells, active |-> active_cells, arg |-> arg,
     origin |-> last.origin]

\* the rest of the Lenia built by Lenia::new and AppState::default(), the
\* main loop left with `ops` grid operations
NewEngine(w, h, region, m, dt, radius, ops, origin) ==
    /\ active_cells = {}
    /\ mode = m
    /\ delta_t = dt
    /\ kernel_radius = radius
    /\ app_state = DefaultAppState
    /\ panicked = FALSE
    /\ budget = ops
    /\ last = [op |-> "new", cells |-> ZeroGrid(w, h), active |-> {}, arg |-> region,
               origin |-> origin]

\* Lenia::new((w, h), region, Some(m), Some(dt), Some(radius)), its random
\* draws non-zero for at most k cells
NewState(w, h, region, m, dt, radius, k, ops) ==
    /\ cells \in NewCells(w, h, region, m, k)
    /\ NewEngine(w, h, region, m, dt, radius, ops, <<>>)

-----------------------------------------------------------------------------
(* Operations *)

ComputeNextGolFrame ==
    IF GolStepPanics(cells, active_cells)
    THEN panicked' = TRUE /\ UNCHANGED <<cells, active_cells>>
    ELSE /\ cells' = NextGolCells(cells, active_cells)
         /\ active_cells' = NextActiveCells(cells, active_cells)
         /\ UNCHANGED panicked

\* ComputeNextLeniaFrame that tracks every cell as active
ComputeNextLeniaFrameTracking ==
    IF LeniaStepPanics(cells, kernel_radius)
    THEN panicked' = TRUE /\ UNCHANGED <<cells, active_cells>>
    ELSE /\ cells' = NextLeniaCells(cells, delta_t, kernel_radius)
         /\ active_cells' = Coords(cells)
         /\ UNCHANGED panicked

ComputeNextLeniaFrame ==
    IF LeniaStepPanics(cells, kernel_radius)
    THEN panicked' = TRUE /\ UNCHANGED <<cells, active_cells>>
    ELSE /\ cells' = NextLeniaCells(cells, delta_t, kernel_radius)
         /\ UNCHANGED <<active_cells, panicked>>

\* Lenia::compute_next_frame
ComputeNextFrame ==
    /\ IF mode = LeniaMode THEN ComputeNextLeniaFrame ELSE ComputeNextGolFrame
    /\ last' = Record("step", <<>>)
    /\ UNCHANGED <<mode, delta_t, kernel_radius, app_state>>

\* step(), called on the engine directly
Step == ~panicked /\ ComputeNextFrame /\ UNCHANGED budget

\* one more grid operation of the main loop
Event == ~panicked /\ budget > 0 /\ budget' = budget - 1

\* the draw_2d closure of main: a frame is computed unless the game is paused
Render ==
    /\ Event
    /\ ~app_state.is_game_paused
    /\ ComputeNextFrame

\* main: lenia.resize(wcell_count, hcell_count) with the window's size
Resize(w, h) ==
    /\ Event
    /\ cells' = ResizeCells(cells, w, h)
    /\ last' = Record("resize", <<w, h>>)
    /\ UNCHANGED <<active_cells, mode, delta_t, kernel_radius, app_state, panicked>>

\* SetCell that writes the whole row of the cell
SetCellWholeRow(g, raw, col, value) ==
    [g EXCEPT ![raw + 1] = [c \in 1..Len(g[raw + 1]) |-> value]]

\* lenia.cells[raw][col] = value
SetCell(g, raw, col, value) == [g EXCEPT ![raw + 1][col + 1] = value]

\* main, Input::Move: in draw mode the cell under the cursor is set or erased
MouseMove(raw, col) ==
    /\ Event
    /\ app_state.is_drawing
    /\ <<raw, col>> \in Coords(cells)
    /\ cells' = SetCell(cells, raw, col, IF app_state.is_erasing THEN 0 ELSE One)
    /\ last' = Record("draw", <<raw, col>>)
    /\ UNCHANGED <<active_cells, mode, delta_t, kernel_radius, app_state, panicked>>

\* main, 'r': a fresh spawn area is seeded
KeyR ==
    /\ Event
    /\ \/ /\ SpawnAreaCanPanic(Width(cells), Height(cells))
          /\ panicked' = TRUE
          /\ last' = Record("reseed", <<>>)
          /\ UNCHANGED cells
       \/ \E region \in SpawnAreas(Width(cells), Height(cells)) :
            /\ cells' \in SeedOutcomes(cells, region, mode, LoopSeeded)
            /\ last' = Record("reseed", region)
            /\ UNCHANGED panicked
    /\ UNCHANGED <<active_cells, mode, delta_t, kernel_radius, app_state>>

\* ClearCells that zeroes the first row only
ClearCellsFirstRow(g) ==
    [r \in 1..Len(g) |-> IF r = 1 THEN [c \in 1..Len(g[1]) |-> 0] ELSE g[r]]

\* vec![vec![0_f32; lenia.cells[0].len()]; lenia.cells.len()]
ClearCells(g) == ZeroGrid(Len(g[1]), Len(g))

\* main, 'c'
KeyC ==
    /\ Event
    /\ cells' = ClearCells(cells)
    /\ last' = Record("clear", <<>>)
    /\ UNCHANGED <<active_cells, mode, delta_t, kernel_radius, app_state, panicked>>

\* main, 's', 'h', 'd' and the mouse buttons change only the AppState
SetAppState(new_state) ==
    /\ ~panicked
    /\ app_state' = new_state
    /\ UNCHANGED <<cells, active_cells, mode, delta_t, kernel_radius, panicked, budget, last>>

\* 's' that leaves draw mode on
KeySKeepsDrawing == SetAppState([app_state EXCEPT !.is_game_paused = FALSE])

KeyS == SetAppState([app_state EXCEPT !.is_game_paused = FALSE, !.is_drawing = FALSE])

KeyH == SetAppState([app_state EXCEPT !.is_game_paused = TRUE])

KeyD == SetAppState([app_state EXCEPT !.is_drawing = ~app_state.is_drawing,
                                      !.is_game_paused = TRUE])

MouseLeft == app_state.is_drawing /\ SetAppState([app_state EXCEPT !.is_erasing = FALSE])

MouseRight == app_state.is_drawing /\ SetAppState([app_state EXCEPT !.is_erasing = TRUE])

-----------------------------------------------------------------------------
(* Discrete mode driven by step() alone, from any grid of dead and live cells *)

InitGol ==
    \E w \in 1..MaxDim, h \in 1..MaxDim :
        NewState(w, h, <<<<0, w - 1>>, <<0, h - 1>>>>, GameOfLife,
                 DefaultDeltaT, DefaultKernelRadius, MaxSeeded, 0)

NextGol == Step

SpecGol == InitGol /\ [][NextGol]_vars

-----------------------------------------------------------------------------
(* The main loop: construction with the whole grid as seed region, then *)
(* any events, MaxOps of them operations on the grid                      *)

\* the delta_t given to Lenia::new
DeltaTs == {DefaultDeltaT}

Init ==
    \E w \in 1..LoopDim, h \in 1..LoopDim :
        LET region == <<<<0, w - 1>>, <<0, h - 1>>>>
        IN  \/ NewState(w, h, region, GameOfLife, DefaultDeltaT, DefaultKernelRadius,
                        LoopSeeded, MaxOps)
            \/ \E dt \in DeltaTs, radius \in 0..MaxRadius :
                  NewState(w, h, region, LeniaMode, dt, radius, LoopSeeded, MaxOps)

Next ==
    \/ \E w \in 1..LoopDim, h \in 1..LoopDim : Resize(w, h)
    \/ \E raw \in 0..(LoopDim - 1), col \in 0..(LoopDim - 1) : MouseMove(raw, col)
    \/ KeyR
    \/ KeyC
    \/ KeyS
    \/ KeyH
    \/ KeyD
    \/ MouseLeft
    \/ MouseRight
    \/ Render

Spec == Init /\ [][Next]_vars

-----------------------------------------------------------------------------
(* Discrete mode under the main loop's drawing and stepping alone *)

InitDraw ==
    \E w \in 1..MaxDim, h \in 1..MaxDim :
        NewState(w, h, <<<<0, w - 1>>, <<0, h - 1>>>>, GameOfLife,
                 DefaultDeltaT, DefaultKernelRadius, LoopSeeded, DrawOps)

NextDraw ==
    \/ \E raw \in 0..(MaxDim - 1), col \in 0..(MaxDim - 1) : MouseMove(raw, col)
    \/ KeyS
    \/ KeyH
    \/ KeyD
    \/ MouseLeft
    \/ MouseRight
    \/ Render

SpecDraw == InitDraw /\ [][NextDraw]_vars

-----------------------------------------------------------------------------
(* Seeding: construction with any seed region, then reseeds and clears *)

\* the seed regions given to Lenia::new: min <= max on both axes, the maxima
\* possibly past the grid
Regions ==
    {r \in ((0..LoopDim) \X (0..LoopDim)) \X ((0..LoopDim) \X (0..LoopDim)) :
        r[1][1] <= r[1][2] /\ r[2][1] <= r[2][2]}

InitSeed ==
    \E w \in 1..LoopDim, h \in 1..LoopDim, region \in Regions, m \in {GameOfLife, LeniaMode} :
        NewState(w, h, region, m, DefaultDeltaT, DefaultKernelRadius, LoopSeeded, MaxOps)

NextSeed == KeyR \/ KeyC

SpecSeed == InitSeed /\ [][NextSeed]_vars

-----------------------------------------------------------------------------
(* Discrete mode stepped from a 2x2 block *)

\* the grid whose live cells are the block with top-left corner (raw, col),
\* wrapping
BlockGrid(w, h, raw, col) ==
    [r \in 1..h |-> [c \in 1..w |->
        IF /\ r - 1 \in {raw, (raw + 1) % h}
           /\ c - 1 \in {col, (col + 1) % w}
        THEN One ELSE 0]]

InitBlock ==
    \E w \in 2..MaxDim, h \in 2..MaxDim, raw \in 0..(MaxDim - 1), col \in 0..(MaxDim - 1) :
        /\ raw < h /\ col < w
        /\ cells = BlockGrid(w, h, raw, col)
        /\ NewEngine(w, h, <<<<0, w - 1>>, <<0, h - 1>>>>, GameOfLife,
                     DefaultDeltaT, DefaultKernelRadius, 0, <<raw, col>>)

NextBlock == Step

SpecBlock == InitBlock /\ [][NextBlock]_vars

-----------------------------------------------------------------------------
(* Discrete mode stepped from a glider on the 16x16 torus *)

GliderDim == 16

\* the standard glider,  . O .
\*                       . . O
\*                       O O O   with its top-left corner at (raw, col)
GliderCells(raw, col) ==
    {<<(raw + 0) % GliderDim, (col + 1) % GliderDim>>,
     <<(raw + 1) % GliderDim, (col + 2) % GliderDim>>,
     <<(raw + 2) % GliderDim, (col + 0) % GliderDim>>,
     <<(raw + 2) % GliderDim, (col + 1) % GliderDim>>,
     <<(raw + 2) % GliderDim, (col + 2) % GliderDim>>}

GliderGrid(raw, col) ==
    [r \in 1..GliderDim |-> [c \in 1..GliderDim |->
        IF <<r - 1, c - 1>> \in GliderCells(raw, col) THEN One ELSE 0]]

InitGlider ==
    \E raw \in 0..(GliderDim - 1), col \in 0..(GliderDim - 1) :
        /\ cells = GliderGrid(raw, col)
        /\ NewEngine(GliderDim, GliderDim,
                     <<<<0, GliderDim - 1>>, <<0, GliderDim - 1>>>>, GameOfLife,
                     DefaultDeltaT, DefaultKernelRadius, GliderSteps, <<raw, col>>)

NextGlider == KeyS \/ Render

SpecGlider == InitGlider /\ [][NextGlider]_vars

-----------------------------------------------------------------------------
(* Continuous mode stepped by the main loop, for several delta_t and radii *)

\* the delta_t given to Lenia::new: 0.1, 1.0 and 5.0
StepDeltaTs == {One \div 10, One, 5 * One}

InitLenia ==
    \E w \in 1..LoopDim, h \in 1..LoopDim, dt \in StepDeltaTs, radius \in 0..MaxRadius :
        NewState(w, h, <<<<0, w - 1>>, <<0, h - 1>>>>, LeniaMode, dt, radius,
                 LoopSeeded, MaxOps)

NextLenia == KeyS \/ Render

SpecLenia == InitLenia /\ [][NextLenia]_vars

-----------------------------------------------------------------------------
(* Properties of Discrete stepping *)

\* the frame obtained from the frame g by re-evaluating every cell
FullGridEvaluation(g) ==
    [r \in 1..Height(g) |-> [c \in 1..Width(g) |-> UpdateCell(g, r - 1, c - 1)]]

\* C1. Active-set soundness: from an empty ActiveSet and under step() alone,
\* every frame the active-set implementation produces is the frame obtained
\* by re-evaluating every cell of the previous frame.
C1_ActiveSetSoundness ==
    last.op = "step" => cells = FullGridEvaluation(last.cells)

\* a step that evaluated only a part of the grid and changed it
C1_Witness ==
    /\ last.op = "step"
    /\ last.active # {}
    /\ last.active # Coords(last.cells)
    /\ cells # last.cells

\* the truncated sum of the 8 neighbours of (raw, col) at
\* ((raw-1, raw, raw+1) mod height, (col-1, col, col+1) mod width)
ModNeighbourCount(g, raw, col) ==
    LET offsets == ({0 - 1, 0, 1} \X {0 - 1, 0, 1}) \ {<<0, 0>>}
    IN  SumOver(offsets, [d \in offsets |->
            Cell(g, (raw + d[1]) % Height(g), (col + d[2]) % Width(g))]) \div One

\* standard Life on the frame g
LifeRule(g, raw, col) ==
    LET n == ModNeighbourCount(g, raw, col)
    IN  IF \/ Cell(g, raw, col) = One /\ n \in {2, 3}
           \/ Cell(g, raw, col) # One /\ n = 3
        THEN One ELSE 0

\* C2. Discrete rule on a snapshot: every cell a Discrete step evaluates
\* receives the value of standard Life computed from the previous frame
\* alone, its neighbours taken modulo the height and the width.
C2_DiscreteRuleOnSnapshot ==
    last.op = "step" =>
        \A rc \in EvaluatedCells(last.cells, last.active) :
            Cell(cells, rc[1], rc[2]) = LifeRule(last.cells, rc[1], rc[2])

\* cell (0,0) survives a step counting (height-1, width-1) and (height-1, 0)
C2_Witness ==
    /\ last.op = "step"
    /\ Width(cells) >= 3 /\ Height(cells) >= 3
    /\ Cell(last.cells, 0, 0) = One
    /\ Cell(last.cells, Height(cells) - 1, Width(cells) - 1) = One
    /\ Cell(last.cells, Height(cells) - 1, 0) = One
    /\ ModNeighbourCount(last.cells, 0, 0) = 2
    /\ Cell(cells, 0, 0) = One

LiveNeighbours(g, raw, col) ==
    {i \in 1..8 : LET n == NeighbourCoords(raw, col, Width(g), Height(g))[i]
                  IN  Cell(g, n[1], n[2]) = One}

\* C3. A live cell without live neighbours is dead after the next step(),
\* whatever the ActiveSet holds.
C3_IsolatedCellDies ==
    (last.op = "step" /\ ~panicked) =>
        \A rc \in Coords(last.cells) :
            (Cell(last.cells, rc[1], rc[2]) = One /\ LiveNeighbours(last.cells, rc[1], rc[2]) = {})
                => Cell(cells, rc[1], rc[2]) = 0

\* C4, as claimed: on every torus that holds it, the 2x2 block is unchanged
\* by any number of steps.
C4_BlockIsStill ==
    last.op = "step" =>
        cells = BlockGrid(Width(cells), Height(cells), last.origin[1], last.origin[2])

\* C4, amended: on every torus of width and height at least 3, the 2x2 block
\* is unchanged by any number of steps.
C4_BlockIsStillFromThree ==
    (last.op = "step" /\ Width(cells) >= 3 /\ Height(cells) >= 3) =>
        cells = BlockGrid(Width(cells), Height(cells), last.origin[1], last.origin[2])

\* a block that wraps around both edges of a 3x3 torus, after a step
C4_Witness ==
    /\ last.op = "step"
    /\ Width(cells) = 3 /\ Height(cells) = 3
    /\ last.origin = <<2, 2>>
    /\ cells = BlockGrid(3, 3, 2, 2)
    /\ last.cells = cells

\* C5. On the 16x16 torus the glider is, after exactly 4 steps, the initial
\* pattern moved by one row and one column, and is not after 1, 2 or 3 steps.
C5_GliderRecursAfterFour ==
    LET taken  == GliderSteps - budget
        target == GliderGrid(last.origin[1] + 1, last.origin[2] + 1)
    IN  /\ taken = 4 => cells = target
        /\ taken \in 1..3 => cells # target

\* the fourth frame of a glider that crosses both edges of the torus
C5_Witness ==
    /\ GliderSteps - budget = 4
    /\ last.origin = <<GliderDim - 2, GliderDim - 3>>
    /\ cells = GliderGrid(GliderDim - 1, GliderDim - 2)
    /\ last.active # {}

-----------------------------------------------------------------------------
(* Properties of resize, of the value range and of seeding *)

\* C6. Dimension preservation: after resize(w, h) the grid has exactly h rows
\* and every row has exactly w cells.
C6_DimensionPreservation ==
    last.op = "resize" =>
        /\ Len(cells) = last.arg[2]
        /\ \A r \in 1..Len(cells) : Len(cells[r]) = last.arg[1]

\* a resize that changes the height alone, after an earlier grid operation
C6_Witness ==
    /\ last.op = "resize"
    /\ budget = 0
    /\ Width(last.cells) = last.arg[1]
    /\ Height(last.cells) < last.arg[2]
    /\ Len(cells[Len(cells)]) = Width(last.cells)

\* C7. Content preservation on resize: a cell inside the old and the new
\* bounds keeps its value, a new cell is 0.0, and a resize to the current
\* size changes nothing.
C7_ContentPreservation ==
    last.op = "resize" =>
        /\ \A r \in 1..Len(cells) : \A c \in 1..Len(cells[r]) :
              cells[r][c] = IF r <= Len(last.cells) /\ c <= Len(last.cells[r])
                            THEN last.cells[r][c] ELSE 0
        /\ last.arg = <<Width(last.cells), Height(last.cells)>> => cells = last.cells

\* a resize that widens and shortens a grid and keeps a non-zero cell
C7_Witness ==
    /\ last.op = "resize"
    /\ Width(cells) > Width(last.cells)
    /\ Height(cells) < Height(last.cells)
    /\ \E rc \in Coords(cells) \cap Coords(last.cells) :
          Cell(cells, rc[1], rc[2]) # 0 /\ Cell(cells, rc[1], rc[2]) = Cell(last.cells, rc[1], rc[2])

\* C8. step() always runs to completion.
C8_StepRunsToCompletion == last.op = "step" => ~panicked

\* C9. Value range: every cell of the grid holds a value in [0.0, 1.0].
C9_ValueRange ==
    \A r \in 1..Len(cells) : \A c \in 1..Len(cells[r]) :
        cells[r][c] >= 0 /\ cells[r][c] <= One

\* the rectangle h_min <= row <= min(h_max, height-1),
\* w_min <= col <= min(w_max, width-1) of the claim
SeedRectangle(g, region) ==
    LET Min(a, b) == IF a <= b THEN a ELSE b
    IN  {rc \in Coords(g) :
            /\ region[2][1] <= rc[1] /\ rc[1] <= Min(region[2][2], Height(g) - 1)
            /\ region[1][1] <= rc[2] /\ rc[2] <= Min(region[1][2], Width(g) - 1)}

\* C10. Seeding respects region bounds: seeding a region, at construction or
\* at runtime, changes only cells of the clamped rectangle; in Discrete mode
\* every cell of the rectangle is 0 or 1 afterwards.
C10_SeedingRespectsRegion ==
    (last.op \in {"new", "reseed"} /\ Len(last.arg) = 2) =>
        /\ Coords(cells) = Coords(last.cells)
        /\ \A rc \in Coords(cells) \ SeedRectangle(cells, last.arg) :
              Cell(cells, rc[1], rc[2]) = Cell(last.cells, rc[1], rc[2])
        /\ mode = GameOfLife =>
              \A rc \in SeedRectangle(cells, last.arg) : Cell(cells, rc[1], rc[2]) \in {0, One}

\* a reseed that draws a live cell and leaves a live cell outside its region
C10_Witness ==
    /\ last.op = "reseed"
    /\ Len(last.arg) = 2
    /\ \E rc \in SeedRectangle(cells, last.arg) : Cell(cells, rc[1], rc[2]) # 0
    /\ \E rc \in Coords(cells) \ SeedRectangle(cells, last.arg) :
          /\ rc[1] < last.arg[2][1] /\ rc[2] < last.arg[1][1]
          /\ Cell(cells, rc[1], rc[2]) # 0

\* the cells evaluated by the last step whose value it changed
ChangedCells ==
    {rc \in (IF last.active = {} THEN Coords(last.cells) ELSE last.active) :
        Cell(last.cells, rc[1], rc[2]) # Cell(cells, rc[1], rc[2])}

\* a cell and its 8 neighbours on the w x h torus
ModNeighbourhood(raw, col, w, h) ==
    {<<(raw + d[1]) % h, (col + d[2]) % w>> : d \in {0 - 1, 0, 1} \X {0 - 1, 0, 1}}

\* C14. ActiveSet rebuild: after a Discrete step() the ActiveSet is exactly
\* the union, over the evaluated cells whose value changed, of the cell and
\* its 8 wrapped neighbours; it has at most 9 cells per changed cell and is
\* empty when no cell changed.
C14_ActiveSetRebuild ==
    last.op = "step" =>
        /\ active_cells =
              UNION {ModNeighbourhood(rc[1], rc[2], Width(cells), Height(cells)) :
                       rc \in ChangedCells}
        /\ Cardinality(active_cells) <= 9 * Cardinality(ChangedCells)
        /\ ChangedCells = {} => active_cells = {}

\* a step from a non-empty ActiveSet that drops one of its cells and leaves
\* a non-empty ActiveSet smaller than the grid
C14_Witness ==
    /\ last.op = "step"
    /\ last.active # {}
    /\ active_cells # {}
    /\ active_cells # Coords(cells)
    /\ \E rc \in last.active : rc \notin active_cells

-----------------------------------------------------------------------------
(* Properties of drawing and clearing *)

\* C11. set_cell(row, col, value) with row < height and col < width writes
\* only cell (row, col): every other cell, the grid dimensions and the
\* ActiveSet are left unchanged.
C11_SetCellFrame ==
    last.op = "draw" =>
        /\ Len(cells) = Len(last.cells)
        /\ \A r \in 1..Len(cells) :
              /\ Len(cells[r]) = Len(last.cells[r])
              /\ \A c \in 1..Len(cells[r]) :
                    IF <<r - 1, c - 1>> = last.arg
                    THEN cells[r][c] \in {0, One}
                    ELSE cells[r][c] = last.cells[r][c]
        /\ active_cells = last.active

\* a dead cell drawn alive beside a dead cell of its row that stays dead, while the
\* ActiveSet is not empty
C11_Witness ==
    /\ last.op = "draw"
    /\ last.active # {}
    /\ Cell(last.cells, last.arg[1], last.arg[2]) = 0
    /\ Cell(cells, last.arg[1], last.arg[2]) = One
    /\ \E c \in 0..(Width(cells) - 1) :
          c # last.arg[2] /\ Cell(cells, last.arg[1], c) = 0

\* C12. clear() sets every cell of the grid to 0.0 and leaves the grid
\* dimensions unchanged.
C12_ClearZeroesGrid ==
    last.op = "clear" =>
        /\ Len(cells) = Len(last.cells)
        /\ \A r \in 1..Len(cells) :
              /\ Len(cells[r]) = Len(last.cells[r])
              /\ \A c \in 1..Len(cells[r]) : cells[r][c] = 0

\* a clear of a non-square grid that held a live cell below its first row
C12_Witness ==
    /\ last.op = "clear"
    /\ Width(last.cells) # Height(last.cells)
    /\ \E rc \in Coords(last.cells) : rc[1] > 0 /\ Cell(last.cells, rc[1], rc[2]) # 0
    /\ Width(cells) = Width(last.cells)
    /\ Height(cells) = Height(last.cells)

-----------------------------------------------------------------------------
(* Properties of Continuous stepping *)

\* C13. Continuous growth bounds: in a Continuous step the growth computed
\* for every cell is in [-1, 1] and the next value of every cell is in
\* [0, 1], for every current value, delta_t and kernel_radius.
C13_GrowthBounds ==
    (last.op = "step" /\ mode = LeniaMode /\ ~panicked) =>
        \A rc \in Coords(last.cells) :
            LET growth_mapping == GrowthFunction(
                    PotentialDistribution(last.cells, rc[1], rc[2], kernel_radius))
            IN  /\ ~IsNaN(growth_mapping)
                /\ growth_mapping >= 0 - ExpScale
                /\ growth_mapping <= ExpScale
                /\ Cell(cells, rc[1], rc[2]) >= 0
                /\ Cell(cells, rc[1], rc[2]) <= One

\* the frame g with its last row and its last column zeroed
WithoutLastRowAndColumn(g) ==
    [r \in 1..Height(g) |-> [c \in 1..Width(g) |->
        IF r = Height(g) \/ c = Width(g) THEN 0 ELSE g[r][c]]]

\* C16. Continuous wrap uses modulo (dimension-1): in a Continuous step on a
\* grid with width, height >= 2 every neighbour is read at row
\* (row mod (height-1)) and column (col mod (width-1)), inside 0..height-2
\* and 0..width-2, and the next frame does not depend, through a neighbour
\* read, on the values of the last row and of the last column.
C16_WrapModuloDimensionMinusOne ==
    (/\ last.op = "step" /\ mode = LeniaMode
     /\ Width(last.cells) >= 2 /\ Height(last.cells) >= 2) =>
        \A rc \in Coords(last.cells) :
            /\ \A n \in KernelNeighbours(rc[1], rc[2], kernel_radius) :
                  LET p == WrapLenia(n, Width(last.cells), Height(last.cells))
                  IN  /\ p[1] = n[1] % (Height(last.cells) - 1)
                      /\ p[2] = n[2] % (Width(last.cells) - 1)
                      /\ p[1] >= 0 /\ p[1] <= Height(last.cells) - 2
                      /\ p[2] >= 0 /\ p[2] <= Width(last.cells) - 2
            /\ LET own == Cell(last.cells, rc[1], rc[2])
                   growth_mapping == GrowthFunction(PotentialDistribution(
                       WithoutLastRowAndColumn(last.cells), rc[1], rc[2], kernel_radius))
               IN  Cell(cells, rc[1], rc[2]) =
                       IF IsNaN(growth_mapping) \/ IsNaN(own) THEN NaN
                       ELSE Clamp01(own + (delta_t * growth_mapping) \div ExpScale)

\* a step of a grid with a non-zero value in its last row or column and a
\* non-zero potential at some cell
C16_Witness ==
    /\ last.op = "step"
    /\ mode = LeniaMode
    /\ ~panicked
    /\ kernel_radius >= 2
    /\ Width(last.cells) >= 2 /\ Height(last.cells) >= 2
    /\ last.cells # WithoutLastRowAndColumn(last.cells)
    /\ cells # last.cells
    /\ \E rc \in Coords(last.cells) :
          PotentialDistribution(last.cells, rc[1], rc[2], kernel_radius) > 0

\* C17. In a Continuous step the potential of cell (r, c) excludes the cell
\* itself: no neighbour within Manhattan distance 1..kernel_radius of
\* (r, c) is, after wrapping, read from index (r, c).
C17_PotentialExcludesSelf ==
    (last.op = "step" /\ mode = LeniaMode /\ ~panicked) =>
        \A rc \in Coords(last.cells) :
            \A n \in KernelNeighbours(rc[1], rc[2], kernel_radius) :
                WrapLenia(n, Width(last.cells), Height(last.cells)) # rc

-----------------------------------------------------------------------------
(* Properties of the ActiveSet and of the control loop *)

\* C15. In Continuous mode the ActiveSet is empty in every reachable state.
C15_ContinuousActiveSetEmpty == mode = LeniaMode => active_cells = {}

\* a Continuous step that changed the grid, after another grid operation
C15_Witness ==
    /\ mode = LeniaMode
    /\ last.op = "step"
    /\ ~panicked
    /\ budget = 0
    /\ cells # last.cells
    /\ active_cells = {}

\* C18. In Discrete mode, after any sequence of resize and step calls, every
\* (row, col) of the ActiveSet has row < height and col < width.
C18_ActiveSetInBounds ==
    mode = GameOfLife =>
        \A rc \in active_cells : rc[1] < Height(cells) /\ rc[2] < Width(cells)

\* C19. In the control loop draw mode is never on while the simulation
\* runs: is_drawing implies is_game_paused in every reachable state.
C19_DrawingImpliesPaused == app_state.is_drawing => app_state.is_game_paused

\* draw mode entered, with the eraser selected, after the simulation ran
C19_Witness ==
    /\ app_state.is_drawing
    /\ app_state.is_erasing
    /\ app_state.is_game_paused
    /\ last.op = "step"

\* C20. generate_spawn_area(width, height) never fails and returns a region
\* with w_min <= w_max <= width-1 and h_min <= h_max <= height-1.
C20_SpawnAreaNeverFails ==
    last.op = "reseed" =>
        /\ ~panicked
        /\ Len(last.arg) = 2
        /\ last.arg[1][1] <= last.arg[1][2] /\ last.arg[1][2] <= Width(cells) - 1
        /\ last.arg[2][1] <= last.arg[2][2] /\ last.arg[2][2] <= Height(cells) - 1

=============================================================================
